---- MODULE Spec2Model ----
(***************************************************************************)
(* A model of perceval's GitHub backend: the rate-limit handler of        *)
(* perceval/client.py, and the fetch / cache-replay generators, the       *)
(* client, the write-side reactions helpers and the constructors of       *)
(* perceval/backends/core/github.py.                                      *)
(***************************************************************************)
EXTENDS Integers, Sequences, FiniteSets, TLC

VARIABLES
    rate_limit,            \* RateLimitHandler.rate_limit (None or an int)
    rate_limit_reset_ts,   \* RateLimitHandler.rate_limit_reset_ts (None or an int)
    sleep_for_rate,        \* RateLimitHandler.sleep_for_rate
    min_rate_to_sleep,     \* RateLimitHandler.min_rate_to_sleep (after the clamp)
    cfg_min_rate,          \* the min_rate_to_sleep argument given to the setup
    last,                  \* the last operation run on the handler and its outcome
    scenario,              \* what the run is: a fetch session, or the replay of a given log
    upstream,              \* the pages of issue ids the API serves for the first label
    srv_headers,           \* the rate headers every response of the API carries
    labels,                \* GitHubClient.labels (None or a list)
    srv_fail,              \* the request of the session the API answers with an error (0: none)
    config,                \* the arguments GitHub(...) is built with, when the construction is followed
    transport,             \* the construction of the client and the retry policy of its HTTP session
    srv_chain,             \* the responses the API serves, page by page, to a fetch_items call
    pager,                 \* the call running on the client: fetch_items (a generator) or user_orgs
    client,                \* GitHubClient: requests made, events of its fetch, _users_orgs
    helper,                \* the call of a write-side reactions helper of GitHub that is followed
    cache,                 \* Backend.cache: None, or the cache log
    nreq,                  \* the HTTP requests made so far
    pc,                    \* where the backend is
    sweep,                 \* GitHubClient.issues: the label and the page of the next request
    result,                \* GitHubClient.issues: the page bodies gathered so far
    fetched,               \* the issues GitHub.fetch has yielded
    fstatus,               \* how GitHub.fetch ended ("" while it has not)
    cursor,                \* fetch_from_cache: tokens read from cache_items
    raw_item,              \* fetch_from_cache: raw_item
    issues,                \* fetch_from_cache: issues (unbound at first)
    idx,                   \* fetch_from_cache: issues of the current list already iterated
    issue,                 \* fetch_from_cache: issue
    yielded,               \* the issues fetch_from_cache has yielded
    rstatus                \* how fetch_from_cache ended ("" while it has not)

rateVars == <<rate_limit, rate_limit_reset_ts, sleep_for_rate, min_rate_to_sleep,
              cfg_min_rate, last>>
envVars == <<scenario, upstream, srv_headers, labels, srv_fail, config, transport>>
pagerVars == <<srv_chain, pager, client>>
fetchVars == <<sweep, result, fetched, fstatus>>
replayVars == <<cursor, raw_item, issues, idx, issue, yielded, rstatus>>

storeVars == <<envVars, helper, cache, nreq, pc, fetchVars, replayVars>>
backendVars == <<storeVars, pagerVars>>

vars == <<rateVars, backendVars>>

(***************************************************************************)
(* Python values.  None and an int are told apart by the field "some".     *)
(***************************************************************************)
None == [some |-> FALSE, v |-> 0]
Some(n) == [some |-> TRUE, v |-> n]

Max(a, b) == IF a >= b THEN a ELSE b
Min(a, b) == IF a <= b THEN a ELSE b

(***************************************************************************)
(* Bounds of the model.                                                    *)
(***************************************************************************)
MaxNow == 6          \* int(time.time()) ranges over 0..MaxNow
MaxPages == 2        \* pages of the issue list of one label
MaxIssues == 2       \* issues of a session, over all its pages

(***************************************************************************)
(* perceval/client.py: RateLimitHandler                                    *)
(***************************************************************************)
MAX_RATE_LIMIT == 500
RATE_LIMIT_HEADER == "X-RateLimit-Remaining"
RATE_LIMIT_RESET_HEADER == "X-RateLimit-Reset"

\* A header value is text: a sequence of decimal digits.
RECURSIVE ParseInt(_)
ParseInt(s) ==
    IF Len(s) = 0 THEN 0
    ELSE 10 * ParseInt(SubSeq(s, 1, Len(s) - 1)) + s[Len(s)]

\* The remaining-count and reset-timestamp header values a response may carry.
RemainingTexts == {<<0>>, <<5>>, <<1, 0>>, <<1, 1>>, <<5, 0, 0>>, <<5, 0, 1>>, <<6, 0, 0>>}
ResetTexts == {<<0>>, <<3>>, <<9>>}
Times == 0..MaxNow
MinRateConfigs == {0, 10, 500, 501, 600}

\* response.headers: a dictionary from some of the two header names to text.
HeaderSets ==
    UNION {[S -> RemainingTexts \cup ResetTexts] : S \in SUBSET {RATE_LIMIT_HEADER, RATE_LIMIT_RESET_HEADER}}
Headers ==
    {h \in HeaderSets :
        /\ (RATE_LIMIT_HEADER \in DOMAIN h => h[RATE_LIMIT_HEADER] \in RemainingTexts)
        /\ (RATE_LIMIT_RESET_HEADER \in DOMAIN h => h[RATE_LIMIT_RESET_HEADER] \in ResetTexts)}

\* (variant of SetupMinRate without the clamp)
SetupMinRateUnclamped(min_rate) == min_rate
\* setup_rate_limit_handler: the floor kept is the argument clamped to MAX_RATE_LIMIT.
SetupMinRate(min_rate) ==
    IF min_rate > MAX_RATE_LIMIT THEN MAX_RATE_LIMIT ELSE min_rate

\* (variant of SleepOutcome, defined below, that lets the check pass once the reset time is over)
SleepOutcomeUntilReset(rl, reset, minrate, sleepflag, now) ==
    IF rl.some /\ rl.v <= minrate /\ reset.some /\ ~sleepflag /\ reset.v - now + 1 > 0
    THEN [kind |-> "RateLimitError", seconds |-> reset.v - now + 1]
    ELSE [kind |-> "return", seconds |-> 0]

\* sleep_for_rate_limit, as a function of the handler's state and of int(time.time()).
\* kind: "return" (condition false), "sleep" (time.sleep returned),
\* "RateLimitError", "ValueError" (time.sleep of a negative length),
\* "TypeError" (None - int).
SleepOutcome(rl, reset, minrate, sleepflag, now) ==
    IF rl.some /\ rl.v <= minrate
    THEN IF ~reset.some
         THEN [kind |-> "TypeError", seconds |-> 0]
         ELSE LET seconds_to_reset == reset.v - now + 1
              IN  IF sleepflag
                  THEN IF seconds_to_reset < 0
                       THEN [kind |-> "ValueError", seconds |-> seconds_to_reset]
                       ELSE [kind |-> "sleep", seconds |-> seconds_to_reset]
                  ELSE [kind |-> "RateLimitError", seconds |-> seconds_to_reset]
    ELSE [kind |-> "return", seconds |-> 0]

\* (variant of HeaderField keeping the old value when the header is absent)
HeaderFieldStale(headers, name, old) ==
    IF name \in DOMAIN headers THEN Some(ParseInt(headers[name])) ELSE old
\* update_rate_limit: each field from its own header, None when the header is absent.
HeaderField(headers, name, old) ==
    IF name \in DOMAIN headers THEN Some(ParseInt(headers[name])) ELSE None


(***************************************************************************)
(* Values of the GitHub backend.                                           *)
(*                                                                         *)
(* A Python dict is a record, a Python list a sequence, {} and [] are      *)
(* << >>.  A token of the cache log is a Python value of one of three      *)
(* types: a string (t = "str": a marker, the text of a JSON array whose    *)
(* decoding is v, or the text of a JSON object whose decoding is v[1]), a  *)
(* list (t = "list") or a dict (t = "dict", v = <<the dict>>).             *)
(***************************************************************************)
Str(text) == [t |-> "str", s |-> text, v |-> << >>]
Json(value) == [t |-> "str", s |-> "json", v |-> value]
JsonObject(d) == [t |-> "str", s |-> "json-object", v |-> <<d>>]
ListObj(value) == [t |-> "list", s |-> "", v |-> value]
DictObj(d) == [t |-> "dict", s |-> "", v |-> <<d>>]

\* The markers of perceval/backends/core/github.py.
ISSUES == Str("{ISSUES}")
ISSUE_END == Str("{ISSUE-END}")
USER == Str("{USER}")
ASSIGNEE == Str("{ASSIGNEE}")
ASSIGNEES == Str("{ASSIGNEES}")
COMMENTS == Str("{COMMENTS}")
ISSUE_REACTIONS == Str("{ISSUE-REACTIONS}")
COMMENT_REACTIONS == Str("{COMMENT-REACTIONS}")
SENTINEL == Str("{}{}")
\* A string that is none of the markers.
BOGUS == Str("{BOGUS}")
\* The literal '[]' pushed when the API reported zero reactions.
EmptyArrayText == Json(<< >>)

\* Python truthiness of a token (while items: / if not user).
Truthy(tok) ==
    IF tok.t = "str" THEN tok.s # "" ELSE IF tok.t = "list" THEN tok.v # << >> ELSE tok.v[1] # << >>

\* json.loads(raw): the decoded value of JSON text; a marker is not JSON
\* (json.JSONDecodeError, a ValueError); a value that is no string is a TypeError.
\* val holds the items a for loop draws from the decoded value: the elements
\* of an array, the keys of an object.
JsonLoads(tok) ==
    IF tok.t # "str" THEN [err |-> "TypeError", val |-> << >>]
    ELSE IF tok.s = "json" THEN [err |-> "", val |-> tok.v]
    ELSE IF tok.s = "json-object"
         THEN [err |-> "", val |-> [i \in 1..Cardinality(DOMAIN tok.v[1]) |-> [char |-> "k"]]]
    ELSE [err |-> "ValueError", val |-> << >>]

\* The items a for loop draws from a token: the elements of a list, the
\* characters of a string, the keys of a dict.  A character or a key is the
\* record [char |-> c]; of a longer text only the first characters are kept
\* (the loops of this module stop at the first one).
IterItems(tok) ==
    IF tok.t = "list" THEN tok.v
    ELSE IF tok.t = "dict" THEN [i \in 1..Cardinality(DOMAIN tok.v[1]) |-> [char |-> "k"]]
    ELSE IF tok.s = "" THEN << >>
    ELSE IF tok.s = "json" THEN <<[char |-> "["], [char |-> "]"]>>
    ELSE <<[char |-> "{"], [char |-> "}"]>>

\* item['user'] for an item drawn by a for loop.
ItemUser(item) ==
    IF "char" \in DOMAIN item THEN [err |-> "TypeError", val |-> None]
    ELSE IF "user" \in DOMAIN item THEN [err |-> "", val |-> item.user]
    ELSE [err |-> "KeyError", val |-> None]

\* __get_login(user): None for a falsy user, else user['login'].
GetLogin(user) ==
    IF user = None \/ user = << >> THEN [err |-> "", val |-> None]
    ELSE IF "char" \in DOMAIN user THEN [err |-> "TypeError", val |-> None]
    ELSE IF "login" \in DOMAIN user THEN [err |-> "", val |-> Some(user.login)]
    ELSE [err |-> "KeyError", val |-> None]

\* __get_login applied to a token read from the log (the raw assignee).
GetLoginTok(tok) ==
    IF ~Truthy(tok) THEN [err |-> "", val |-> None]
    ELSE IF tok.t = "dict" THEN GetLogin(tok.v[1])
    ELSE [err |-> "TypeError", val |-> None]

\* __get_user / __get_user_and_organization: both return an empty dict at once.
GetUser(login) == << >>
GetUserAndOrganization(login, raw_user, raw_org) == << >>

(***************************************************************************)
(* The upstream repository: three issues and their sub-resources.          *)
(***************************************************************************)
U1 == [login |-> "alice"]
U2 == [login |-> "bob"]

\* The decoded JSON object of issue n as the API serves it.
RawIssue(n) ==
    IF n = 2
    THEN [id |-> n, user |-> U1, assignee |-> U2, assignees |-> <<U2>>,
          reactions |-> [total_count |-> 1]]
    ELSE [id |-> n, user |-> U1, assignee |-> None, assignees |-> << >>,
          reactions |-> [total_count |-> 0]]
IssueIds == {1, 2, 3}

\* A response of a paginated listing: its body and whether it links to a next
\* page (with the last link the API sends along with every next link).
Response(text, hasNext) == [text |-> text, next |-> hasNext]

\* issues/<n>/comments: issue 3 has one comment, which has one reaction.
CommentsChain(n) ==
    IF n = 3
    THEN <<Response(Json(<<[id |-> 31, user |-> U2, reactions |-> [total_count |-> 1]]>>), FALSE)>>
    ELSE <<Response(EmptyArrayText, FALSE)>>
\* issues/<n>/reactions: issue 2 has one reaction.
IssueReactionsChain(n) ==
    IF n = 2 THEN <<Response(Json(<<[id |-> 21, user |-> U1]>>), FALSE)>>
    ELSE <<Response(EmptyArrayText, FALSE)>>
\* issues/comments/<id>/reactions.
CommentReactionsChain(cid) ==
    IF cid = 31 THEN <<Response(Json(<<[id |-> 311, user |-> U1]>>), FALSE)>>
    ELSE <<Response(EmptyArrayText, FALSE)>>

(***************************************************************************)
(* GitHubClient.fetch_items, drained: the bodies it yields for a chain of  *)
(* responses and the number of requests it makes.                          *)
(***************************************************************************)
RECURSIVE FetchItemsFrom(_, _)
FetchItemsFrom(chain, i) ==
    LET response == chain[i]
        items == response.text
    IN  IF ~Truthy(items) THEN [bodies |-> << >>, nreq |-> 1]
        ELSE IF response.next
             THEN LET rest == FetchItemsFrom(chain, i + 1)
                  IN  [bodies |-> <<items>> \o rest.bodies, nreq |-> 1 + rest.nreq]
             ELSE [bodies |-> <<items>>, nreq |-> 1]
FetchItems(chain) == FetchItemsFrom(chain, 1)

(***************************************************************************)
(* The write-side helpers of GitHub: the tokens each pushes to the cache   *)
(* queue (flushed in push order), the value it returns and the requests it *)
(* makes.                                                                  *)
(***************************************************************************)
\* reaction['user_data'] = self.__get_user(self.__get_login(reaction['user']))
WithUserData(item) == ("user_data" :> GetUser(GetLogin(item.user).val)) @@ item

RECURSIVE DecodeReactions(_)
DecodeReactions(bodies) ==
    IF bodies = << >> THEN << >>
    ELSE LET page == JsonLoads(Head(bodies)).val
         IN  [i \in 1..Len(page) |-> WithUserData(page[i])] \o DecodeReactions(Tail(bodies))

\* __get_issue_reactions(issue_number, total_count)
GetIssueReactions(issue_number, total_count) ==
    IF total_count = 0
    THEN [tokens |-> <<ISSUE_REACTIONS, EmptyArrayText>>, value |-> << >>, nreq |-> 0]
    ELSE LET group_reactions == FetchItems(IssueReactionsChain(issue_number))
         IN  [tokens |-> <<ISSUE_REACTIONS>> \o group_reactions.bodies,
              value |-> DecodeReactions(group_reactions.bodies),
              nreq |-> group_reactions.nreq]

\* __get_issue_comment_reactions(comment_id, total_count)
GetIssueCommentReactions(comment_id, total_count) ==
    IF total_count = 0
    THEN [tokens |-> <<COMMENT_REACTIONS, EmptyArrayText>>, value |-> << >>, nreq |-> 0]
    ELSE LET group_reactions == FetchItems(CommentReactionsChain(comment_id))
         IN  [tokens |-> <<COMMENT_REACTIONS>> \o group_reactions.bodies,
              value |-> DecodeReactions(group_reactions.bodies),
              nreq |-> group_reactions.nreq]

\* The inner loop of __get_issue_comments over the comments of one page.
RECURSIVE CommentsOfPage(_, _)
CommentsOfPage(page, i) ==
    IF i > Len(page) THEN [tokens |-> << >>, value |-> << >>, nreq |-> 0]
    ELSE LET comment == page[i]
             r == GetIssueCommentReactions(comment.id, comment.reactions.total_count)
             rest == CommentsOfPage(page, i + 1)
         IN  [tokens |-> r.tokens \o rest.tokens,
              value |-> <<("reactions_data" :> r.value) @@ WithUserData(comment)>> \o rest.value,
              nreq |-> r.nreq + rest.nreq]

\* The outer loop of __get_issue_comments over the pages.
RECURSIVE CommentsOfPages(_)
CommentsOfPages(bodies) ==
    IF bodies = << >> THEN [tokens |-> << >>, value |-> << >>, nreq |-> 0]
    ELSE LET raw_comments == Head(bodies)
             here == CommentsOfPage(JsonLoads(raw_comments).val, 1)
             rest == CommentsOfPages(Tail(bodies))
         IN  [tokens |-> <<raw_comments>> \o here.tokens \o rest.tokens,
              value |-> here.value \o rest.value,
              nreq |-> here.nreq + rest.nreq]

\* __get_issue_comments(issue_number)
GetIssueComments(issue_number) ==
    LET group_comments == FetchItems(CommentsChain(issue_number))
        body == CommentsOfPages(group_comments.bodies)
    IN  [tokens |-> <<COMMENTS>> \o body.tokens, value |-> body.value,
         nreq |-> group_comments.nreq + body.nreq]

\* __get_issue_assignee(raw_assignee): the decoded assignee is pushed as it is.
GetIssueAssignee(raw_assignee) ==
    [tokens |-> <<ASSIGNEE, DictObj(raw_assignee)>>,
     value |-> GetUser(GetLogin(raw_assignee).val), nreq |-> 0]

\* __get_issue_assignees(raw_assignees): the decoded list is pushed as it is.
GetIssueAssignees(raw_assignees) ==
    [tokens |-> <<ASSIGNEES, ListObj(raw_assignees)>>,
     value |-> [i \in 1..Len(raw_assignees) |-> GetUser(GetLogin(raw_assignees[i]).val)],
     nreq |-> 0]

\* __init_extra_issue_fields(issue)
InitExtraIssueFields(iss) ==
    [user_data |-> << >>, assignee_data |-> << >>, assignees_data |-> << >>,
     comments_data |-> << >>, reactions_data |-> << >>] @@ iss

(***************************************************************************)
(* The read side: the handlers of fetch_from_cache.  cache_items is the    *)
(* log and a cursor cur (the number of tokens read so far).  A handler     *)
(* returns the error it raises ("" for none), the cursor it leaves and     *)
(* its value.                                                              *)
(***************************************************************************)
\* n calls of next(cache_items): StopIteration when fewer than n tokens are left.
TakeN(log, cur, n) ==
    IF cur + n <= Len(log) THEN [err |-> "", cur |-> cur + n]
    ELSE [err |-> "StopIteration", cur |-> Len(log)]

Fail(e, c) == [err |-> e, cur |-> c, val |-> << >>]

\* __fetch_issues_from_cache
FetchIssuesFromCache(log, cur) ==
    LET t == TakeN(log, cur, 1)
    IN  IF t.err # "" THEN Fail(t.err, t.cur)
        ELSE LET loaded == JsonLoads(log[t.cur])
             IN  [err |-> loaded.err, cur |-> t.cur, val |-> loaded.val]

\* __fetch_user_and_organization_from_cache, with its argument
\* self.__get_login(issue['user']) evaluated first.
FetchUserAndOrganizationFromCache(iss, log, cur) ==
    LET u == ItemUser(iss)
        login == GetLogin(u.val)
        t == TakeN(log, cur, 2)
    IN  IF u.err # "" THEN Fail(u.err, cur)
        ELSE IF login.err # "" THEN Fail(login.err, cur)
        ELSE IF t.err # "" THEN Fail(t.err, t.cur)
        ELSE [err |-> "", cur |-> t.cur,
              val |-> GetUserAndOrganization(login.val, log[cur + 1], log[cur + 2])]

\* __fetch_assignee_from_cache: four tokens, then the login of the first.
FetchAssigneeFromCache(log, cur) ==
    LET t == TakeN(log, cur, 4)
    IN  IF t.err # "" THEN Fail(t.err, t.cur)
        ELSE LET login == GetLoginTok(log[cur + 1])
             IN  IF login.err # "" THEN Fail(login.err, t.cur)
                 ELSE [err |-> "", cur |-> t.cur,
                       val |-> GetUserAndOrganization(login.val, log[cur + 3], log[cur + 4])]

\* The loop of __fetch_assignees_from_cache: three tokens for each assignee.
RECURSIVE AssigneesLoop(_, _, _, _, _)
AssigneesLoop(log, cur, items, i, acc) ==
    IF i > Len(items) THEN [err |-> "", cur |-> cur, val |-> acc]
    ELSE LET t == TakeN(log, cur, 3)
         IN  IF t.err # "" THEN Fail(t.err, t.cur)
             ELSE LET login == GetLogin(items[i])
                  IN  IF login.err # "" THEN Fail(login.err, t.cur)
                      ELSE AssigneesLoop(log, t.cur, items, i + 1,
                               Append(acc, GetUserAndOrganization(login.val,
                                               log[cur + 2], log[cur + 3])))

\* __fetch_assignees_from_cache: the payload is iterated as it was read.
FetchAssigneesFromCache(log, cur) ==
    LET t == TakeN(log, cur, 1)
    IN  IF t.err # "" THEN Fail(t.err, t.cur)
        ELSE AssigneesLoop(log, t.cur, IterItems(log[t.cur]), 1, << >>)

\* The loop of the two reactions handlers: three tokens for each reaction.
RECURSIVE ReactionsLoop(_, _, _, _, _)
ReactionsLoop(log, cur, items, i, acc) ==
    IF i > Len(items) THEN [err |-> "", cur |-> cur, val |-> acc]
    ELSE LET t == TakeN(log, cur, 3)
             u == ItemUser(items[i])
             login == GetLogin(u.val)
         IN  IF t.err # "" THEN Fail(t.err, t.cur)
             ELSE IF u.err # "" THEN Fail(u.err, t.cur)
             ELSE IF login.err # "" THEN Fail(login.err, t.cur)
             ELSE ReactionsLoop(log, t.cur, items, i + 1,
                      Append(acc, ("user_data" :> GetUserAndOrganization(login.val,
                                       log[cur + 2], log[cur + 3])) @@ items[i]))

\* __fetch_issue_comment_reactions_from_cache
FetchIssueCommentReactionsFromCache(log, cur) ==
    LET t == TakeN(log, cur, 1)
    IN  IF t.err # "" THEN Fail(t.err, t.cur)
        ELSE LET reactions == JsonLoads(log[t.cur])
             IN  IF reactions.err # "" THEN Fail(reactions.err, t.cur)
                 ELSE ReactionsLoop(log, t.cur, reactions.val, 1, << >>)

\* __fetch_issue_reactions_from_cache
FetchIssueReactionsFromCache(log, cur) ==
    LET t == TakeN(log, cur, 1)
    IN  IF t.err # "" THEN Fail(t.err, t.cur)
        ELSE LET reactions == JsonLoads(log[t.cur])
             IN  IF reactions.err # "" THEN Fail(reactions.err, t.cur)
                 ELSE ReactionsLoop(log, t.cur, reactions.val, 1, << >>)

\* The loop of __fetch_comments_from_cache: three tokens, the reactions tag
\* and the reactions block for each comment.
RECURSIVE CommentsLoop(_, _, _, _, _)
CommentsLoop(log, cur, items, i, acc) ==
    IF i > Len(items) THEN [err |-> "", cur |-> cur, val |-> acc]
    ELSE LET t == TakeN(log, cur, 3)
             u == ItemUser(items[i])
             login == GetLogin(u.val)
             tag == TakeN(log, t.cur, 1)
             reactions == FetchIssueCommentReactionsFromCache(log, tag.cur)
         IN  IF t.err # "" THEN Fail(t.err, t.cur)
             ELSE IF u.err # "" THEN Fail(u.err, t.cur)
             ELSE IF login.err # "" THEN Fail(login.err, t.cur)
             ELSE IF tag.err # "" THEN Fail(tag.err, tag.cur)
             ELSE IF reactions.err # "" THEN Fail(reactions.err, reactions.cur)
             ELSE CommentsLoop(log, reactions.cur, items, i + 1,
                      Append(acc, [user_data |-> GetUserAndOrganization(login.val,
                                                     log[cur + 2], log[cur + 3]),
                                   reactions_data |-> reactions.val] @@ items[i]))

\* __fetch_comments_from_cache
FetchCommentsFromCache(log, cur) ==
    LET t == TakeN(log, cur, 1)
    IN  IF t.err # "" THEN Fail(t.err, t.cur)
        ELSE LET comments == JsonLoads(log[t.cur])
             IN  IF comments.err # "" THEN Fail(comments.err, t.cur)
                 ELSE CommentsLoop(log, t.cur, comments.val, 1, << >>)

\* The if / elif chain of fetch_from_cache on one token: the handler of the
\* marker; a token that is none of the five markers is passed over.
Dispatch(iss, tok, log, cur) ==
    IF tok = USER
    THEN LET r == FetchUserAndOrganizationFromCache(iss, log, cur)
         IN  [err |-> r.err, cur |-> r.cur,
              issue |-> IF r.err = "" THEN [iss EXCEPT !.user_data = r.val] ELSE iss]
    ELSE IF tok = ASSIGNEE
    THEN LET r == FetchAssigneeFromCache(log, cur)
         IN  [err |-> r.err, cur |-> r.cur,
              issue |-> IF r.err = "" THEN [iss EXCEPT !.assignee_data = r.val] ELSE iss]
    ELSE IF tok = ASSIGNEES
    THEN LET r == FetchAssigneesFromCache(log, cur)
         IN  [err |-> r.err, cur |-> r.cur,
              issue |-> IF r.err = "" THEN [iss EXCEPT !.assignees_data = r.val] ELSE iss]
    ELSE IF tok = COMMENTS
    THEN LET r == FetchCommentsFromCache(log, cur)
         IN  [err |-> r.err, cur |-> r.cur,
              issue |-> IF r.err = "" THEN [iss EXCEPT !.comments_data = r.val] ELSE iss]
    ELSE IF tok = ISSUE_REACTIONS
    THEN LET r == FetchIssueReactionsFromCache(log, cur)
         IN  [err |-> r.err, cur |-> r.cur,
              issue |-> IF r.err = "" THEN [iss EXCEPT !.reactions_data = r.val] ELSE iss]
    ELSE [err |-> "", cur |-> cur, issue |-> iss]

(***************************************************************************)
(* The logs a cache can hold.  SessionLog is the log of a fetch session in *)
(* the grammar of the cache: for each page of the issue list ISSUES and    *)
(* the page, then for each of its issues the blocks the write-side helpers *)
(* push, in the order assignee, assignees, comments, reactions, and        *)
(* ISSUE-END; at the end the terminal sentinel.                            *)
(***************************************************************************)
NoneSeq == [some |-> FALSE, v |-> << >>]

IssueBlock(raw_issue) ==
    (IF raw_issue.assignee # None THEN GetIssueAssignee(raw_issue.assignee).tokens ELSE << >>)
    \o GetIssueAssignees(raw_issue.assignees).tokens
    \o GetIssueComments(raw_issue.id).tokens
    \o GetIssueReactions(raw_issue.id, raw_issue.reactions.total_count).tokens
    \o <<ISSUE_END>>

RECURSIVE IssueBlocks(_, _)
IssueBlocks(page, i) ==
    IF i > Len(page) THEN << >> ELSE IssueBlock(page[i]) \o IssueBlocks(page, i + 1)

\* The decoded page of the issue list that holds the issues ids.
RawPage(ids) == [i \in 1..Len(ids) |-> RawIssue(ids[i])]

RECURSIVE PageBlocks(_, _)
PageBlocks(pages, p) ==
    IF p > Len(pages) THEN << >>
    ELSE <<ISSUES, Json(RawPage(pages[p]))>> \o IssueBlocks(RawPage(pages[p]), 1)
         \o PageBlocks(pages, p + 1)

\* A store of strings holds the assignee payloads as JSON text
\* (enc = "text"); a store of Python values holds them as pushed (enc = "object").
Encode(tok, enc) ==
    IF enc = "object" \/ tok.t = "str" THEN tok
    ELSE IF tok.t = "list" THEN Json(tok.v)
    ELSE JsonObject(tok.v[1])

SessionLog(pages, enc) ==
    LET tokens == PageBlocks(pages, 1) \o <<SENTINEL>>
    IN  [i \in 1..Len(tokens) |-> Encode(tokens[i], enc)]

\* The sessions: 1..MaxPages pages of issues, MaxIssues issues at most.
RECURSIVE TotalLen(_)
TotalLen(pages) == IF pages = << >> THEN 0 ELSE Len(Head(pages)) + TotalLen(Tail(pages))
PageShapes == UNION {[1..k -> IssueIds] : k \in 0..MaxIssues}
Sessions ==
    {ps \in UNION {[1..n -> PageShapes] : n \in 1..MaxPages} : TotalLen(ps) <= MaxIssues}

\* A log that violates the grammar, made from a well-formed one:
\*   "unknown"    an unknown marker inserted before token pos
\*   "payload"    a payload inserted before token pos, where a marker is expected
\*   "misplaced"  an ISSUE-END marker inserted before token pos, the page of ISSUES
\*   "headless"   the first token removed
\*   "truncated"  only the first pos tokens kept
InsertAt(log, pos, tok) == SubSeq(log, 1, pos - 1) \o <<tok>> \o SubSeq(log, pos, Len(log))
Corrupt(log, kind, pos) ==
    IF kind = "unknown" THEN InsertAt(log, pos, BOGUS)
    ELSE IF kind = "payload" THEN InsertAt(log, pos, EmptyArrayText)
    ELSE IF kind = "misplaced" THEN InsertAt(log, pos, ISSUE_END)
    ELSE IF kind = "headless" THEN Tail(log)
    ELSE IF kind = "truncated" THEN SubSeq(log, 1, pos)
    ELSE log
Corruptions(log) ==
    {[kind |-> "none", pos |-> 0], [kind |-> "headless", pos |-> 0]}
    \cup {[kind |-> "unknown", pos |-> p] : p \in 1..Len(log)}
    \cup {[kind |-> "truncated", pos |-> p] : p \in 0..(Len(log) - 1)}
    \cup {[kind |-> "payload", pos |-> p] : p \in {q \in 1..Len(log) : q = 1 \/ log[q - 1] = ISSUE_END}}
    \cup {[kind |-> "misplaced", pos |-> p] : p \in {q \in 2..Len(log) : log[q - 1] = ISSUES}}

(***************************************************************************)
(* The rate-limit handler on its own (SpecRate).                           *)
(***************************************************************************)
Unbound == [bound |-> FALSE, v |-> << >>]
Bound(list) == [bound |-> TRUE, v |-> list]
NoToken == Str("")

\* A response of the API: the status, the body, the next and last relations of
\* its Link header (last: the page number of the last link) and the rate headers.
NoResponse == [status |-> 0, text |-> NoToken, next |-> FALSE, last |-> None,
               headers |-> << >>]

\* No call running on the client.
NoCall == [op |-> "none", pc |-> "idle", req |-> 0, response |-> NoResponse,
           last_page |-> None, out |-> << >>, asked |-> 0, status |-> "",
           value |-> NoToken]

\* A client that has made no request: no event, an empty _users_orgs.
NewClient == [nreq |-> 0, calls |-> 0, events |-> << >>, resp_log |-> << >>,
              users_orgs |-> [some |-> FALSE, v |-> NoToken]]

\* A client on which no call is followed.
PagerIdle ==
    /\ srv_chain = << >>
    /\ pager = NoCall
    /\ client = NewClient

\* No write-side helper is followed.
NoHelper == [name |-> "none", total_count |-> 0, pc |-> "idle", before |-> << >>,
             reactions |-> << >>, pushed |-> 0, status |-> "", calls |-> 0]

\* The construction of the backend is not followed.
NoConfig == [sleep_for_rate |-> FALSE, max_retries |-> 0, default_sleep_time |-> 0]
NoTransport == [pc |-> "none", args |-> << >>, max_retries |-> None,
                default_sleep_time |-> None, total |-> None, backoff_factor |-> None]
BuildIdle ==
    /\ config = NoConfig
    /\ transport = NoTransport

\* Neither a fetch session nor a replay has run.
SessionIdle ==
    /\ BuildIdle
    /\ scenario = [kind |-> "none", enc |-> "object", corruption |-> "none", pos |-> 0]
    /\ upstream = << >>
    /\ srv_headers = << >>
    /\ labels = NoneSeq
    /\ srv_fail = 0
    /\ nreq = 0
    /\ pc = "idle"
    /\ sweep = [label |-> 1, page |-> 1]
    /\ result = << >>
    /\ fetched = << >>
    /\ fstatus = ""
    /\ cursor = 0
    /\ raw_item = NoToken
    /\ issues = Unbound
    /\ idx = 0
    /\ issue = << >>
    /\ yielded = << >>
    /\ rstatus = ""

\* A backend without a cache on which nothing has run.
BackendIdle ==
    /\ helper = NoHelper
    /\ cache = NoneSeq
    /\ SessionIdle

NoOp == [op |-> "setup", kind |-> "return", seconds |-> 0, now |-> 0,
         rl |-> None, reset |-> None, headers |-> << >>]

\* State after setup_rate_limit_handler(sleep_for_rate, min_rate_to_sleep).
InitRate ==
    /\ rate_limit = None
    /\ rate_limit_reset_ts = None
    /\ sleep_for_rate \in BOOLEAN
    /\ cfg_min_rate \in MinRateConfigs
    /\ min_rate_to_sleep = SetupMinRate(cfg_min_rate)
    /\ last = NoOp
    /\ BackendIdle
    /\ PagerIdle

\* sleep_for_rate_limit() called at time now.
SleepForRateLimit ==
    \E now \in Times :
        LET out == SleepOutcome(rate_limit, rate_limit_reset_ts, min_rate_to_sleep,
                                sleep_for_rate, now)
        IN  /\ last' = [op |-> "check", kind |-> out.kind, seconds |-> out.seconds,
                        now |-> now, rl |-> rate_limit, reset |-> rate_limit_reset_ts,
                        headers |-> << >>]
            /\ UNCHANGED <<rate_limit, rate_limit_reset_ts, sleep_for_rate,
                           min_rate_to_sleep, cfg_min_rate>>
            /\ UNCHANGED backendVars

\* update_rate_limit(response).
UpdateRateLimit ==
    \E headers \in Headers :
        /\ rate_limit' = HeaderField(headers, RATE_LIMIT_HEADER, rate_limit)
        /\ rate_limit_reset_ts' = HeaderField(headers, RATE_LIMIT_RESET_HEADER, rate_limit_reset_ts)
        /\ last' = [op |-> "update", kind |-> "return", seconds |-> 0, now |-> 0,
                    rl |-> rate_limit, reset |-> rate_limit_reset_ts, headers |-> headers]
        /\ UNCHANGED <<sleep_for_rate, min_rate_to_sleep, cfg_min_rate>>
        /\ UNCHANGED backendVars

NextRate == SleepForRateLimit \/ UpdateRateLimit

SpecRate == InitRate /\ [][NextRate]_vars

(***************************************************************************)
(* The GitHub backend (Spec): construction, a fetch session, a replay.     *)
(***************************************************************************)
MIN_RATE_LIMIT == 10

\* The rate headers of an API that enforces a rate limit; << >> is their
\* absence (an instance without rate limiting, which answers 404 on rate_limit).
HealthyHeaders ==
    (RATE_LIMIT_HEADER :> <<6, 0, 0>>) @@ (RATE_LIMIT_RESET_HEADER :> <<9>>)
LabelConfigs == {NoneSeq, [some |-> TRUE, v |-> << >>], [some |-> TRUE, v |-> <<"bug">>],
                 [some |-> TRUE, v |-> <<"bug", "ui">>]}

\* The chain of responses of the issue list for a label: the pages of the
\* session for the first label, one page holding issue 1 for any other.
IssuesChain(label, pages) ==
    IF label = "bug"
    THEN [p \in 1..Len(pages) |-> Response(Json(RawPage(pages[p])), p < Len(pages))]
    ELSE <<Response(Json(RawPage(<<1>>)), FALSE)>>

\* (variant of RaiseForStatus that takes every status for a success)
RaiseForStatusNever(status) == FALSE
\* response.raise_for_status(): an HTTPError for a 4xx or a 5xx status.
RaiseForStatus(status) == status >= 400 /\ status < 600

\* The body of an error response.
ErrorText == Str("error")

\* The status the API answers to the k-th request of a session (the request
\* of the constructor is not counted).
StatusAt(k) == IF k = srv_fail THEN 404 ELSE 200

\* (variant of Extend that drops a page body already gathered)
ExtendDistinct(acc, body) ==
    IF \E i \in 1..Len(acc) : acc[i] = body THEN acc ELSE Append(acc, body)
\* result += self.fetch_items(...): a page body yielded is appended to the list.
Extend(acc, body) == Append(acc, body)

\* (variant of CacheMissing that finds a cache in every backend)
CacheMissingNever(c) == FALSE
\* if not self.cache
CacheMissing(c) == ~c.some

\* Before GitHub(...) is built: the arguments of the constructor and the API.
Init ==
    /\ rate_limit = None
    /\ rate_limit_reset_ts = None
    /\ sleep_for_rate = FALSE
    /\ cfg_min_rate = MIN_RATE_LIMIT
    /\ min_rate_to_sleep = SetupMinRate(cfg_min_rate)
    /\ last = NoOp
    /\ PagerIdle
    /\ helper = NoHelper
    /\ BuildIdle
    /\ upstream \in Sessions
    /\ \/ /\ scenario = [kind |-> "session", enc |-> "object", corruption |-> "none", pos |-> 0]
          /\ srv_fail \in 0..(MaxPages + 1)
          /\ srv_headers \in {<< >>, HealthyHeaders}
          /\ labels \in LabelConfigs
          /\ cache = [some |-> TRUE, v |-> << >>]
       \/ /\ labels = NoneSeq
          /\ srv_fail = 0
          /\ srv_headers = HealthyHeaders
          /\ \E enc \in {"object", "text"} :
                \E c \in Corruptions(SessionLog(upstream, enc)) :
                   /\ scenario = [kind |-> "replay", enc |-> enc, corruption |-> c.kind,
                                  pos |-> c.pos]
                   /\ cache = [some |-> TRUE,
                               v |-> Corrupt(SessionLog(upstream, enc), c.kind, c.pos)]
       \/ /\ labels = NoneSeq
          /\ srv_fail = 0
          /\ srv_headers = HealthyHeaders
          /\ scenario = [kind |-> "replay", enc |-> "object", corruption |-> "none", pos |-> 0]
          /\ cache = NoneSeq
    /\ nreq = 0
    /\ pc = "new"
    /\ sweep = [label |-> 1, page |-> 1]
    /\ result = << >>
    /\ fetched = << >>
    /\ fstatus = ""
    /\ cursor = 0
    /\ raw_item = NoToken
    /\ issues = Unbound
    /\ idx = 0
    /\ issue = << >>
    /\ yielded = << >>
    /\ rstatus = ""

\* GitHub.__init__: GitHubClient.__init__ sets the rate-limit handler up and
\* calls _init_rate_limit, which requests <base_url>/rate_limit; a 404 answer
\* leaves the rate state as it is.
Construct ==
    /\ pc = "new"
    /\ nreq' = nreq + 1
    /\ IF srv_headers = << >>
       THEN UNCHANGED <<rate_limit, rate_limit_reset_ts, last>>
       ELSE /\ rate_limit' = HeaderField(srv_headers, RATE_LIMIT_HEADER, rate_limit)
            /\ rate_limit_reset_ts' = HeaderField(srv_headers, RATE_LIMIT_RESET_HEADER,
                                                  rate_limit_reset_ts)
            /\ last' = [op |-> "update", kind |-> "return", seconds |-> 0, now |-> 0,
                        rl |-> rate_limit, reset |-> rate_limit_reset_ts,
                        headers |-> srv_headers]
    /\ pc' = "ready"
    /\ UNCHANGED <<sleep_for_rate, min_rate_to_sleep, cfg_min_rate, envVars, pagerVars, helper, cache,
                   fetchVars, replayVars>>

\* GitHub.fetch, from the first next() to the loop of GitHubClient.issues:
\* for label in self.labels fails on None.
FetchStart ==
    /\ pc = "ready"
    /\ scenario.kind = "session"
    /\ IF ~labels.some
       THEN /\ fstatus' = "TypeError"
            /\ pc' = "fetched"
       ELSE /\ fstatus' = ""
            /\ pc' = IF labels.v = << >> THEN "iterate" ELSE "sweep"
    /\ sweep' = [label |-> 1, page |-> 1]
    /\ result' = << >>
    /\ UNCHANGED <<rateVars, envVars, pagerVars, helper, cache, nreq, fetched, replayVars>>

\* GitHubClient.issues: result += self.fetch_items(path, payload) drains the
\* pages of a label one request at a time: GitHubClient.fetch checks the rate
\* limit, makes the request and updates the rate state; fetch_items yields the
\* body while it is not empty and goes on while the response has a next link.
\* An error status raises an HTTPError in HttpClient.fetch: nothing catches it,
\* the rate state is not updated and GitHub.fetch ends with the error.
IssuesRequest ==
    /\ pc = "sweep"
    /\ \E now \in {0} :
        LET out == SleepOutcome(rate_limit, rate_limit_reset_ts, min_rate_to_sleep,
                                sleep_for_rate, now)
            chain == IssuesChain(labels.v[sweep.label], upstream)
            response == chain[sweep.page]
            more == Truthy(response.text) /\ response.next
            lastLabel == sweep.label = Len(labels.v)
        IN  IF out.kind \notin {"return", "sleep"}
            THEN /\ fstatus' = out.kind
                 /\ pc' = "fetched"
                 /\ last' = [op |-> "check", kind |-> out.kind, seconds |-> out.seconds,
                             now |-> now, rl |-> rate_limit, reset |-> rate_limit_reset_ts,
                             headers |-> << >>]
                 /\ UNCHANGED <<rate_limit, rate_limit_reset_ts, nreq, sweep, result>>
            ELSE IF RaiseForStatus(StatusAt(nreq))
            THEN /\ nreq' = nreq + 1
                 /\ fstatus' = "HTTPError"
                 /\ pc' = "fetched"
                 /\ last' = [op |-> "check", kind |-> out.kind, seconds |-> out.seconds,
                             now |-> now, rl |-> rate_limit, reset |-> rate_limit_reset_ts,
                             headers |-> << >>]
                 /\ UNCHANGED <<rate_limit, rate_limit_reset_ts, sweep, result>>
            ELSE /\ nreq' = nreq + 1
                 /\ rate_limit' = HeaderField(srv_headers, RATE_LIMIT_HEADER, rate_limit)
                 /\ rate_limit_reset_ts' = HeaderField(srv_headers, RATE_LIMIT_RESET_HEADER,
                                                       rate_limit_reset_ts)
                 /\ last' = [op |-> "update", kind |-> "return", seconds |-> 0, now |-> 0,
                             rl |-> rate_limit, reset |-> rate_limit_reset_ts,
                             headers |-> srv_headers]
                 /\ result' = IF Truthy(response.text) THEN Extend(result, response.text)
                              ELSE result
                 /\ sweep' = IF more THEN [sweep EXCEPT !.page = @ + 1]
                             ELSE [label |-> sweep.label + 1, page |-> 1]
                 /\ pc' = IF ~more /\ lastLabel THEN "iterate" ELSE "sweep"
                 /\ fstatus' = fstatus
    /\ UNCHANGED <<sleep_for_rate, min_rate_to_sleep, cfg_min_rate, envVars, pagerVars, helper, cache,
                   fetched, replayVars>>

\* The issues of the pages gathered, in the order GitHub.fetch yields them.
RECURSIVE IssuesOf(_)
IssuesOf(bodies) ==
    IF bodies = << >> THEN << >>
    ELSE JsonLoads(Head(bodies)).val \o IssuesOf(Tail(bodies))

\* GitHub.fetch: yield issue.  Nothing is pushed to the cache.
FetchYield ==
    /\ pc = "iterate"
    /\ Len(fetched) < Len(IssuesOf(result))
    /\ fetched' = Append(fetched, IssuesOf(result)[Len(fetched) + 1])
    /\ UNCHANGED <<rateVars, envVars, pagerVars, helper, cache, nreq, pc, sweep, result, fstatus, replayVars>>

\* GitHub.fetch: the loops are over and the generator returns.
FetchEnd ==
    /\ pc = "iterate"
    /\ Len(fetched) = Len(IssuesOf(result))
    /\ fstatus' = "done"
    /\ pc' = "fetched"
    /\ UNCHANGED <<rateVars, envVars, pagerVars, helper, cache, nreq, sweep, result, fetched, replayVars>>

\* A StopIteration that leaves the body of the generator ends the replay: as a
\* RuntimeError under PEP 479 (Python 3.7 and later), silently before.
Escapes(status) == status \in {"RuntimeError", "stopped"}

\* fetch_from_cache, from the first next() to the while loop.
ReplayStart ==
    /\ \/ pc = "ready" /\ scenario.kind = "replay"
       \/ pc = "fetched"
    /\ IF CacheMissing(cache)
       THEN /\ rstatus' = "CacheError"
            /\ pc' = "done"
            /\ UNCHANGED <<cursor, raw_item>>
       ELSE IF Len(cache.v) = 0
       THEN /\ Escapes(rstatus')
            /\ pc' = "done"
            /\ UNCHANGED <<cursor, raw_item>>
       ELSE /\ raw_item' = cache.v[1]
            /\ cursor' = 1
            /\ pc' = "outer"
            /\ UNCHANGED rstatus
    /\ UNCHANGED <<rateVars, envVars, pagerVars, helper, cache, nreq, fetchVars, issues, idx, issue, yielded>>

\* The head of while raw_item != '{}{}' and the if on '{ISSUES}'.
ReplayOuter ==
    /\ pc = "outer"
    /\ IF raw_item = SENTINEL
       THEN /\ rstatus' = "done"
            /\ pc' = "done"
            /\ UNCHANGED <<cursor, issues, idx>>
       ELSE IF raw_item = ISSUES
       THEN LET r == FetchIssuesFromCache(cache.v, cursor)
            IN  /\ cursor' = r.cur
                /\ IF r.err = "StopIteration"
                   THEN Escapes(rstatus') /\ pc' = "done" /\ UNCHANGED <<issues, idx>>
                   ELSE IF r.err # ""
                   THEN rstatus' = r.err /\ pc' = "done" /\ UNCHANGED <<issues, idx>>
                   ELSE issues' = Bound(r.val) /\ idx' = 0 /\ pc' = "for" /\ UNCHANGED rstatus
       ELSE IF ~issues.bound
            THEN /\ rstatus' = "UnboundLocalError"
                 /\ pc' = "done"
                 /\ UNCHANGED <<cursor, issues, idx>>
            ELSE /\ idx' = 0
                 /\ pc' = "for"
                 /\ UNCHANGED <<cursor, issues, rstatus>>
    /\ UNCHANGED <<rateVars, envVars, pagerVars, helper, cache, nreq, fetchVars, raw_item, issue, yielded>>

\* for issue in issues: the extra fields and the first token of the issue.
ReplayFor ==
    /\ pc = "for"
    /\ IF idx >= Len(issues.v)
       THEN /\ pc' = "outer"
            /\ UNCHANGED <<cursor, raw_item, issue, rstatus>>
       ELSE IF "char" \in DOMAIN issues.v[idx + 1]
       THEN /\ rstatus' = "TypeError"
            /\ pc' = "done"
            /\ UNCHANGED <<cursor, raw_item, issue>>
       ELSE LET t == TakeN(cache.v, cursor, 1)
            IN  /\ issue' = InitExtraIssueFields(issues.v[idx + 1])
                /\ cursor' = t.cur
                /\ IF t.err # ""
                   THEN Escapes(rstatus') /\ pc' = "done" /\ UNCHANGED raw_item
                   ELSE raw_item' = cache.v[t.cur] /\ pc' = "inner" /\ UNCHANGED rstatus
    /\ UNCHANGED <<rateVars, envVars, pagerVars, helper, cache, nreq, fetchVars, issues, idx, yielded>>

\* One turn of while raw_item != '{ISSUE-END}': the handler of the token and
\* the next token.  A StopIteration is caught, the loop is left, and the
\* next(cache_items) after the loop raises it again.
ReplayMarker ==
    /\ pc = "inner"
    /\ raw_item # ISSUE_END
    /\ LET d == Dispatch(issue, raw_item, cache.v, cursor)
           t == TakeN(cache.v, d.cur, 1)
       IN  IF d.err = "StopIteration" \/ (d.err = "" /\ t.err # "")
           THEN /\ Escapes(rstatus')
                /\ pc' = "done"
                /\ cursor' = Len(cache.v)
                /\ issue' = d.issue
                /\ UNCHANGED raw_item
           ELSE IF d.err # ""
           THEN /\ rstatus' = d.err
                /\ pc' = "done"
                /\ cursor' = d.cur
                /\ UNCHANGED <<raw_item, issue>>
           ELSE /\ issue' = d.issue
                /\ cursor' = t.cur
                /\ raw_item' = cache.v[t.cur]
                /\ UNCHANGED <<pc, rstatus>>
    /\ UNCHANGED <<rateVars, envVars, pagerVars, helper, cache, nreq, fetchVars, issues, idx, yielded>>

\* raw_item is '{ISSUE-END}': the next token is read and the issue is yielded.
ReplayIssueEnd ==
    /\ pc = "inner"
    /\ raw_item = ISSUE_END
    /\ LET t == TakeN(cache.v, cursor, 1)
       IN  /\ cursor' = t.cur
           /\ IF t.err # ""
              THEN Escapes(rstatus') /\ pc' = "done" /\ UNCHANGED <<raw_item, yielded, idx>>
              ELSE /\ raw_item' = cache.v[t.cur]
                   /\ yielded' = Append(yielded, issue)
                   /\ idx' = idx + 1
                   /\ pc' = "for"
                   /\ UNCHANGED rstatus
    /\ UNCHANGED <<rateVars, envVars, pagerVars, helper, cache, nreq, fetchVars, issues, issue>>

Next ==
    \/ Construct
    \/ FetchStart
    \/ IssuesRequest
    \/ FetchYield
    \/ FetchEnd
    \/ ReplayStart
    \/ ReplayOuter
    \/ ReplayFor
    \/ ReplayMarker
    \/ ReplayIssueEnd

Spec == Init /\ [][Next]_vars

(***************************************************************************)
(* GitHubClient on its own (SpecClient): fetch_items, a generator its      *)
(* consumer draws from, and user_orgs.  Every request goes through         *)
(* GitHubClient.fetch, followed one statement at a time.                   *)
(***************************************************************************)
MaxChain == 3        \* pages of the chain of responses served to fetch_items
MaxCalls == 2        \* calls made on one client

\* (variant of IsNotFound that takes every error status for a 404)
IsNotFoundAny(status) == TRUE
\* error.response.status_code == 404
IsNotFound(status) == status = 404

\* Rate headers: of a client close to its limit, and with the reset header missing.
LowHeaders == (RATE_LIMIT_HEADER :> <<5>>) @@ (RATE_LIMIT_RESET_HEADER :> <<3>>)
RemainingOnlyHeaders == (RATE_LIMIT_HEADER :> <<5>>)
HeaderProfiles == {"healthy", "low", "remaining", "none"}
ProfileHeaders(profile) ==
    IF profile = "healthy" THEN HealthyHeaders
    ELSE IF profile = "low" THEN LowHeaders
    ELSE IF profile = "remaining" THEN RemainingOnlyHeaders
    ELSE << >>

\* The body of page p of a listing.
PageBody(p) == Json(RawPage(<<((p - 1) % 3) + 1>>))

\* A chain of n responses.  Every page but the last links to the next one, and
\* to the last one if hasLast.  Page apos may be out of the ordinary: an error
\* status, an empty body, or no next link although pages follow.  Page hpos
\* carries the rate headers of the profile, the others the healthy ones.
Anomalies == {"none", "404", "500", "empty", "stop"}
StatusOf(anomaly) == IF anomaly = "404" THEN 404 ELSE IF anomaly = "500" THEN 500 ELSE 200
ChainOf(n, hasLast, anomaly, apos, profile, hpos) ==
    [p \in 1..n |->
        LET a == IF p = apos THEN anomaly ELSE "none"
        IN  [status |-> StatusOf(a),
             text |-> IF a = "empty" THEN Str("")
                      ELSE IF a \in {"404", "500"} THEN ErrorText
                      ELSE PageBody(p),
             next |-> p < n /\ a # "stop",
             last |-> IF hasLast /\ p < n THEN Some(n) ELSE None,
             headers |-> ProfileHeaders(IF p = hpos THEN profile ELSE "healthy")]]
Chains ==
    UNION {{ChainOf(n, hl, a, ap, pr, hp) :
                hl \in BOOLEAN, a \in Anomalies, ap \in 1..n, pr \in HeaderProfiles,
                hp \in 1..n} : n \in 1..MaxChain}

\* The answers of the API to the organizations lookup of a user.
OrgsText == Json(<<[login |-> "org"]>>)
OrgsResponses ==
    {[status |-> st, text |-> IF st = 200 THEN OrgsText ELSE ErrorText, next |-> FALSE,
      last |-> None, headers |-> HealthyHeaders] : st \in {200, 403, 404, 500}}

\* (variant of FetchBody that makes the request before the check)
FetchBodyUnchecked == <<"request", "update", "check">>
\* The statements of GitHubClient.fetch, in order.
FetchBody == <<"check", "request", "update">>
\* The statement that follows pos in GitHubClient.fetch; "ret" after the last.
StepAfter(pos) ==
    LET i == CHOOSE k \in 1..Len(FetchBody) : FetchBody[k] = pos
    IN  IF i < Len(FetchBody) THEN FetchBody[i + 1] ELSE "ret"

\* (variant of AtYield in which the generator runs on without its consumer)
AtYieldEager(response) == IF response.next THEN FetchBody[1] ELSE "suspended"
\* yield items: the generator is suspended until the consumer asks again.
AtYield(response) == "suspended"

\* An event of GitHubClient.fetch and the rate state it read or wrote.
Event(e, ok, rl, reset) == [e |-> e, ok |-> ok, rl |-> rl, reset |-> reset]

\* A client built against an API that answered 404 on rate_limit.
InitClient ==
    /\ rate_limit = None
    /\ rate_limit_reset_ts = None
    /\ sleep_for_rate \in BOOLEAN
    /\ cfg_min_rate = MIN_RATE_LIMIT
    /\ min_rate_to_sleep = SetupMinRate(cfg_min_rate)
    /\ last = NoOp
    /\ BackendIdle
    /\ srv_chain \in Chains
    /\ pager = NoCall
    /\ client = NewClient

\* fetch_items(path, payload) is called: a generator is made, nothing runs.
ItemsCall ==
    /\ pager.pc = "idle"
    /\ client.calls < MaxCalls
    /\ pager' = [NoCall EXCEPT !.op = "fetch_items", !.pc = "start"]
    /\ client' = [client EXCEPT !.calls = @ + 1]
    /\ UNCHANGED <<rateVars, srv_chain, storeVars>>

\* The consumer asks the generator for its next element: the first request,
\* or after a yield: items = None, and the next request if the response has a
\* next link, the end of the generator if not.
ConsumerNext ==
    /\ pager.op = "fetch_items"
    /\ pager.pc \in {"start", "suspended"}
    /\ pager' = IF pager.pc = "start" \/ pager.response.next
                THEN [pager EXCEPT !.asked = @ + 1, !.pc = FetchBody[1]]
                ELSE [pager EXCEPT !.asked = @ + 1, !.pc = "idle", !.status = "done"]
    /\ UNCHANGED <<rateVars, srv_chain, client, storeVars>>

\* GitHubClient.fetch: self.sleep_for_rate_limit().
ClientCheck ==
    /\ pager.pc = "check"
    /\ \E now \in {0, MaxNow} :
        LET out == SleepOutcome(rate_limit, rate_limit_reset_ts, min_rate_to_sleep,
                                sleep_for_rate, now)
            passes == out.kind \in {"return", "sleep"}
        IN  /\ last' = [op |-> "check", kind |-> out.kind, seconds |-> out.seconds,
                        now |-> now, rl |-> rate_limit, reset |-> rate_limit_reset_ts,
                        headers |-> << >>]
            /\ client' = [client EXCEPT !.events =
                             Append(@, Event("check", passes, rate_limit, rate_limit_reset_ts))]
            /\ pager' = IF passes THEN [pager EXCEPT !.pc = StepAfter("check")]
                        ELSE [pager EXCEPT !.pc = "idle", !.status = out.kind]
    /\ UNCHANGED <<rate_limit, rate_limit_reset_ts, sleep_for_rate, min_rate_to_sleep,
                   cfg_min_rate, srv_chain, storeVars>>

\* GitHubClient.fetch: response = super().fetch(...), which raises an
\* HTTPError for an error status.  user_orgs catches the error of a 404,
\* stores '[]' for the login and returns it.
ClientRequest ==
    /\ pager.pc = "request"
    /\ \E response \in (IF pager.op = "fetch_items" THEN {srv_chain[pager.req + 1]}
                        ELSE OrgsResponses) :
        LET ok == ~RaiseForStatus(response.status)
            tolerated == pager.op = "user_orgs" /\ IsNotFound(response.status)
        IN  /\ client' = [client EXCEPT
                            !.nreq = @ + 1,
                            !.events = Append(@, Event("request", ok, rate_limit,
                                                       rate_limit_reset_ts)),
                            !.resp_log = IF ok THEN Append(@, response.headers) ELSE @,
                            !.users_orgs = IF ~ok /\ tolerated THEN Some(EmptyArrayText)
                                           ELSE @]
            /\ pager' = IF ok
                        THEN [pager EXCEPT !.req = @ + 1, !.response = response,
                                           !.pc = StepAfter("request")]
                        ELSE IF tolerated
                        THEN [pager EXCEPT !.req = @ + 1, !.response = response,
                                           !.pc = "idle", !.status = "done",
                                           !.value = EmptyArrayText]
                        ELSE [pager EXCEPT !.req = @ + 1, !.response = response,
                                           !.pc = "idle", !.status = "HTTPError"]
    /\ UNCHANGED <<rateVars, srv_chain, storeVars>>

\* GitHubClient.fetch: self.update_rate_limit(response).
ClientUpdate ==
    /\ pager.pc = "update"
    /\ rate_limit' = HeaderField(pager.response.headers, RATE_LIMIT_HEADER, rate_limit)
    /\ rate_limit_reset_ts' = HeaderField(pager.response.headers, RATE_LIMIT_RESET_HEADER,
                                          rate_limit_reset_ts)
    /\ last' = [op |-> "update", kind |-> "return", seconds |-> 0, now |-> 0,
                rl |-> rate_limit, reset |-> rate_limit_reset_ts,
                headers |-> pager.response.headers]
    /\ client' = [client EXCEPT !.events =
                     Append(@, Event("update", TRUE, rate_limit', rate_limit_reset_ts'))]
    /\ pager' = [pager EXCEPT !.pc = StepAfter("update")]
    /\ UNCHANGED <<sleep_for_rate, min_rate_to_sleep, cfg_min_rate, srv_chain, storeVars>>

\* GitHubClient.fetch has returned the response.  user_orgs stores r.text for
\* the login and returns it.  fetch_items, after its first request, reads the
\* last link if there is one; after a later request it formats
\* "Page: %i/%i" % (page, last_page), a TypeError when last_page is None; then
\* while items: yield items, or the end of the generator for an empty body.
FetchReturn ==
    /\ pager.pc = "ret"
    /\ IF pager.op = "user_orgs"
       THEN /\ pager' = [pager EXCEPT !.pc = "idle", !.status = "done",
                                      !.value = pager.response.text]
            /\ client' = [client EXCEPT !.users_orgs = Some(pager.response.text)]
       ELSE /\ pager' =
                IF pager.req > 1 /\ ~pager.last_page.some
                THEN [pager EXCEPT !.pc = "idle", !.status = "TypeError"]
                ELSE LET lp == IF pager.req = 1 THEN pager.response.last
                               ELSE pager.last_page
                     IN  IF Truthy(pager.response.text)
                         THEN [pager EXCEPT !.last_page = lp,
                                            !.out = Append(@, pager.response.text),
                                            !.pc = AtYield(pager.response)]
                         ELSE [pager EXCEPT !.last_page = lp, !.pc = "idle",
                                            !.status = "done"]
            /\ UNCHANGED client
    /\ UNCHANGED <<rateVars, srv_chain, storeVars>>

\* user_orgs(login) is called: the stored value if there is one, else a request.
OrgsCall ==
    /\ pager.pc = "idle"
    /\ client.calls < MaxCalls
    /\ pager' = IF client.users_orgs.some
                THEN [NoCall EXCEPT !.op = "user_orgs", !.status = "done",
                                    !.value = client.users_orgs.v]
                ELSE [NoCall EXCEPT !.op = "user_orgs", !.pc = FetchBody[1]]
    /\ client' = [client EXCEPT !.calls = @ + 1]
    /\ UNCHANGED <<rateVars, srv_chain, storeVars>>

NextClient ==
    \/ ItemsCall
    \/ ConsumerNext
    \/ ClientCheck
    \/ ClientRequest
    \/ ClientUpdate
    \/ FetchReturn
    \/ OrgsCall

SpecClient == InitClient /\ [][NextClient]_vars

(***************************************************************************)
(* The write-side reactions helpers of GitHub on their own (SpecWrite):    *)
(* __get_issue_reactions and __get_issue_comment_reactions, called one     *)
(* after the other on a backend with a cache.  The listing of the          *)
(* reactions is a fetch_items generator of the client, which the for loop  *)
(* of the helper draws from.  _push_cache_queue followed by                *)
(* _flush_cache_queue appends the token to the cache log.                  *)
(***************************************************************************)
MaxHelperCalls == 2  \* calls of the reactions helpers on one backend

\* The helpers and the marker each pushes first.
HelperNames == {"__get_issue_reactions", "__get_issue_comment_reactions"}
\* (variant of MarkerOf that pushes the marker of the issue reactions for both)
MarkerOfIssue(name) == ISSUE_REACTIONS
MarkerOf(name) == IF name = "__get_issue_reactions" THEN ISSUE_REACTIONS ELSE COMMENT_REACTIONS

\* The total_count values the parent object may carry.
TotalCounts == {0, 2}

\* The body of page p of a listing of reactions: one or two reactions.
ReactionsBody(p) ==
    Json([i \in 1..((p % 2) + 1) |-> [id |-> 10 * p + i, user |-> IF i = 1 THEN U1 ELSE U2]])
\* The chains of responses served to the listing of the reactions: the last
\* page may be an error or empty, the first may carry low rate headers.
ReactionChains ==
    {[p \in 1..Len(c) |-> [c[p] EXCEPT !.text = IF @ = PageBody(p) THEN ReactionsBody(p) ELSE @]] :
        c \in UNION {{ChainOf(n, hl, a, n, pr, 1) :
                        hl \in BOOLEAN, a \in {"none", "500", "empty"},
                        pr \in {"healthy", "low"}} : n \in 1..MaxChain}}

\* A backend with an empty cache log, before a helper is called on it.
InitWrite ==
    /\ rate_limit = None
    /\ rate_limit_reset_ts = None
    /\ sleep_for_rate \in BOOLEAN
    /\ cfg_min_rate = MIN_RATE_LIMIT
    /\ min_rate_to_sleep = SetupMinRate(cfg_min_rate)
    /\ last = NoOp
    /\ SessionIdle
    /\ srv_chain \in ReactionChains
    /\ pager = NoCall
    /\ client = NewClient
    /\ cache = [some |-> TRUE, v |-> << >>]
    /\ helper = NoHelper

\* A helper is called: reactions = [], the marker is pushed and flushed.
ReactionsCall ==
    /\ helper.pc = "idle"
    /\ helper.status \in {"", "done"}
    /\ helper.calls < MaxHelperCalls
    /\ \E name \in HelperNames, total_count \in TotalCounts :
          helper' = [NoHelper EXCEPT !.name = name, !.total_count = total_count,
                                     !.pc = "branch", !.before = cache.v,
                                     !.calls = helper.calls + 1]
    /\ cache' = [cache EXCEPT !.v = Append(@, MarkerOf(helper'.name))]
    /\ pager' = NoCall
    /\ UNCHANGED <<rateVars, srv_chain, client, envVars, nreq, pc, fetchVars, replayVars>>

\* if total_count == 0: '[]' is pushed and the empty list returned; else
\* group_reactions = self.client.issue_reactions(...), a generator not yet run.
ReactionsBranch ==
    /\ helper.pc = "branch"
    /\ IF helper.total_count = 0
       THEN /\ cache' = [cache EXCEPT !.v = Append(@, EmptyArrayText)]
            /\ helper' = [helper EXCEPT !.pc = "idle", !.status = "done"]
            /\ UNCHANGED <<pager, client>>
       ELSE /\ pager' = [NoCall EXCEPT !.op = "fetch_items", !.pc = "start"]
            /\ client' = [client EXCEPT !.calls = @ + 1]
            /\ helper' = [helper EXCEPT !.pc = "for"]
            /\ UNCHANGED cache
    /\ UNCHANGED <<rateVars, srv_chain, envVars, nreq, pc, fetchVars, replayVars>>

\* for raw_reactions in group_reactions: the loop asks the generator for its
\* next element, once the body has run for the element before.
ReactionsNext ==
    /\ helper.pc = "for"
    /\ helper.pushed = Len(pager.out)
    /\ ConsumerNext

\* The body of the loop for the page the generator has yielded: the page is
\* pushed and flushed, its reactions are decoded and given their user_data.
ReactionsPage ==
    /\ helper.pc = "for"
    /\ pager.pc = "suspended"
    /\ helper.pushed < Len(pager.out)
    /\ LET raw_reactions == pager.out[Len(pager.out)]
       IN  /\ cache' = [cache EXCEPT !.v = Append(@, raw_reactions)]
           /\ helper' = [helper EXCEPT !.pushed = @ + 1,
                                       !.reactions = @ \o DecodeReactions(<<raw_reactions>>)]
    /\ UNCHANGED <<rateVars, pagerVars, envVars, nreq, pc, fetchVars, replayVars>>

\* The generator has ended: return reactions, or the exception that ended it
\* leaves the helper.
ReactionsReturn ==
    /\ helper.pc = "for"
    /\ pager.pc = "idle"
    /\ pager.status # ""
    /\ helper' = [helper EXCEPT !.pc = "idle", !.status = pager.status]
    /\ UNCHANGED <<rateVars, pagerVars, envVars, cache, nreq, pc, fetchVars, replayVars>>

NextWrite ==
    \/ ReactionsCall
    \/ ReactionsBranch
    \/ ReactionsNext
    \/ ClientCheck
    \/ ClientRequest
    \/ ClientUpdate
    \/ FetchReturn
    \/ ReactionsPage
    \/ ReactionsReturn

SpecWrite == InitWrite /\ [][NextWrite]_vars

(***************************************************************************)
(* The construction of the backend on its own (SpecBuild): GitHub.__init__ *)
(* builds its GitHubClient, whose __init__ runs HttpClient.__init__ (the   *)
(* HTTP session and its retry policy), sets the rate-limit handler up and  *)
(* requests rate_limit.                                                    *)
(***************************************************************************)
\* The values max_retries and default_sleep_time are configured with.
RetryCounts == {0, 1, 5}
SleepTimes == {0, 1, 5}

\* The parameters of GitHubClient.__init__ after self, in the order of its def.
ClientParams ==
    <<"owner", "repository", "token", "base_url", "sleep_for_rate", "min_rate_to_sleep",
      "default_sleep_time", "max_retries", "labels", "state">>
\* The positional arguments of the call GitHubClient(...) in GitHub.__init__.
ClientCallArgs(cfg, min_rate, lbls) ==
    <<"owner", "repository", "api_token", None, cfg.sleep_for_rate, min_rate,
      cfg.max_retries, cfg.default_sleep_time, lbls, "all">>
\* A call with positional arguments: each parameter takes the argument at its position.
BindPositional(params, args) ==
    [name \in {params[i] : i \in 1..Len(params)} |->
        args[CHOOSE i \in 1..Len(params) : params[i] = name]]

\* Before GitHub(...) is called: its arguments and the answer of the API to rate_limit.
InitBuild ==
    /\ rate_limit = None
    /\ rate_limit_reset_ts = None
    /\ sleep_for_rate = FALSE
    /\ cfg_min_rate \in MinRateConfigs
    /\ min_rate_to_sleep = 0
    /\ last = NoOp
    /\ PagerIdle
    /\ helper = NoHelper
    /\ scenario = [kind |-> "build", enc |-> "object", corruption |-> "none", pos |-> 0]
    /\ upstream = << >>
    /\ srv_headers \in {<< >>, HealthyHeaders, LowHeaders}
    /\ labels = NoneSeq
    /\ srv_fail \in {0, 1}
    /\ config \in [sleep_for_rate : BOOLEAN, max_retries : RetryCounts,
                    default_sleep_time : SleepTimes]
    /\ transport = [NoTransport EXCEPT !.pc = "new"]
    /\ cache = NoneSeq
    /\ nreq = 0
    /\ pc = "idle"
    /\ sweep = [label |-> 1, page |-> 1]
    /\ result = << >>
    /\ fetched = << >>
    /\ fstatus = ""
    /\ cursor = 0
    /\ raw_item = NoToken
    /\ issues = Unbound
    /\ idx = 0
    /\ issue = << >>
    /\ yielded = << >>
    /\ rstatus = ""

\* GitHub.__init__: self.client = GitHubClient(owner, repository, api_token,
\* base_url, sleep_for_rate, min_rate_to_sleep, max_retries,
\* default_sleep_time, labels, state), every argument positional.
GitHubInit ==
    /\ transport.pc = "new"
    /\ transport' = [transport EXCEPT
                        !.pc = "client",
                        !.args = BindPositional(ClientParams,
                                                ClientCallArgs(config, cfg_min_rate, labels))]
    /\ UNCHANGED <<rateVars, scenario, upstream, srv_headers, labels, srv_fail, config,
                   pagerVars, helper, cache, nreq, pc, fetchVars, replayVars>>

\* GitHubClient.__init__ up to super().__init__(base_url, default_sleep_time=...,
\* max_retries=..., headers=...): HttpClient.__init__ keeps both values and
\* _create_http_session mounts Retry(total=self.max_retries, ...,
\* backoff_factor=self.default_sleep_time, ...).
HttpClientInit ==
    /\ transport.pc = "client"
    /\ transport' = [transport EXCEPT
                        !.pc = "setup",
                        !.max_retries = Some(transport.args.max_retries),
                        !.default_sleep_time = Some(transport.args.default_sleep_time),
                        !.total = Some(transport.args.max_retries),
                        !.backoff_factor = Some(transport.args.default_sleep_time)]
    /\ UNCHANGED <<rateVars, scenario, upstream, srv_headers, labels, srv_fail, config,
                   pagerVars, helper, cache, nreq, pc, fetchVars, replayVars>>

\* super().setup_rate_limit_handler(sleep_for_rate=..., min_rate_to_sleep=...)
SetupRateLimitHandler ==
    /\ transport.pc = "setup"
    /\ rate_limit' = None
    /\ rate_limit_reset_ts' = None
    /\ sleep_for_rate' = transport.args.sleep_for_rate
    /\ min_rate_to_sleep' = SetupMinRate(transport.args.min_rate_to_sleep)
    /\ transport' = [transport EXCEPT !.pc = "rate"]
    /\ UNCHANGED <<cfg_min_rate, last, scenario, upstream, srv_headers, labels, srv_fail,
                   config, pagerVars, helper, cache, nreq, pc, fetchVars, replayVars>>

\* self._init_rate_limit(): the request of rate_limit; its 404 is tolerated,
\* any other error status leaves the constructor.
InitRateLimit ==
    /\ transport.pc = "rate"
    /\ nreq' = nreq + 1
    /\ \E status \in (IF srv_fail = 0 THEN {200} ELSE {404, 500}) :
          IF ~RaiseForStatus(status)
          THEN /\ rate_limit' = HeaderField(srv_headers, RATE_LIMIT_HEADER, rate_limit)
               /\ rate_limit_reset_ts' = HeaderField(srv_headers, RATE_LIMIT_RESET_HEADER,
                                                     rate_limit_reset_ts)
               /\ last' = [op |-> "update", kind |-> "return", seconds |-> 0, now |-> 0,
                           rl |-> rate_limit, reset |-> rate_limit_reset_ts,
                           headers |-> srv_headers]
               /\ transport' = [transport EXCEPT !.pc = "built"]
          ELSE /\ transport' = [transport EXCEPT
                                   !.pc = IF IsNotFound(status) THEN "built" ELSE "HTTPError"]
               /\ UNCHANGED <<rate_limit, rate_limit_reset_ts, last>>
    /\ UNCHANGED <<sleep_for_rate, min_rate_to_sleep, cfg_min_rate, scenario, upstream,
                   srv_headers, labels, srv_fail, config, pagerVars, helper, cache, pc,
                   fetchVars, replayVars>>

NextBuild ==
    \/ GitHubInit
    \/ HttpClientInit
    \/ SetupRateLimitHandler
    \/ InitRateLimit

SpecBuild == InitBuild /\ [][NextBuild]_vars

(***************************************************************************)
(* Claims about the rate-limit handler (checked under SpecRate).           *)
(***************************************************************************)
\* The check just run found the budget exhausted: remaining known and <= the floor.
Exhausted == last.op = "check" /\ last.rl.some /\ last.rl.v <= min_rate_to_sleep

\* C7: with remaining known, remaining <= min_rate_to_sleep and sleep_for_rate
\* false, sleep_for_rate_limit fails with RateLimitError carrying
\* max(0, reset_at - now + 1), a value that is never negative.
C7_SecondsClamped ==
    (Exhausted /\ ~sleep_for_rate /\ last.reset.some)
        => /\ last.kind = "RateLimitError"
           /\ last.seconds = Max(0, last.reset.v - last.now + 1)
           /\ last.seconds >= 0

\* C8: with the budget exhausted and sleep_for_rate true, sleep_for_rate_limit
\* sleeps max(0, reset_at - now + 1) seconds and returns normally; it never fails.
C8_SleepsAndReturns ==
    (Exhausted /\ sleep_for_rate /\ last.reset.some)
        => /\ last.kind = "sleep"
           /\ last.seconds = Max(0, last.reset.v - last.now + 1)

\* C9: sleep_for_rate_limit takes the exhaustion branch (it sleeps or fails) if
\* and only if remaining is known and remaining <= min(configured floor, 500);
\* otherwise it returns at once.
C9_ExhaustionIff ==
    last.op = "check"
        => ((last.kind # "return")
              <=> (last.rl.some /\ last.rl.v <= Min(cfg_min_rate, 500)))

\* C9 witness: a floor configured above 500, remaining equal to 500, branch taken.
C9_Witness ==
    /\ last.op = "check"
    /\ cfg_min_rate > 500
    /\ last.rl = Some(500)
    /\ last.kind \in {"sleep", "RateLimitError"}

\* C10: after update_rate_limit(response) each of remaining and reset_at is the
\* value of its header when the response carries it and unknown otherwise.
C10_UpdateFromHeaders ==
    last.op = "update"
        => /\ rate_limit =
                IF RATE_LIMIT_HEADER \in DOMAIN last.headers
                THEN Some(ParseInt(last.headers[RATE_LIMIT_HEADER])) ELSE None
           /\ rate_limit_reset_ts =
                IF RATE_LIMIT_RESET_HEADER \in DOMAIN last.headers
                THEN Some(ParseInt(last.headers[RATE_LIMIT_RESET_HEADER])) ELSE None

\* C10 witness: both fields were known, the response carries only the reset
\* header, and remaining is unknown afterwards.
C10_Witness ==
    /\ last.op = "update"
    /\ last.rl.some /\ last.reset.some
    /\ DOMAIN last.headers = {RATE_LIMIT_RESET_HEADER}
    /\ rate_limit = None
    /\ rate_limit_reset_ts = Some(ParseInt(last.headers[RATE_LIMIT_RESET_HEADER]))

(***************************************************************************)
(* Claims about the backend (checked under Spec).                          *)
(***************************************************************************)
\* The token sequence of C2: one issue without assignee, comments or reactions.
C2_Log ==
    <<ISSUES, Json(<<RawIssue(1)>>), ASSIGNEES, EmptyArrayText, COMMENTS, EmptyArrayText,
      ISSUE_REACTIONS, EmptyArrayText, ISSUE_END, SENTINEL>>

\* C1: replaying the cache log written during a fetch session yields the same
\* sequence of issue records as the fetch yielded (here for the sessions that
\* yielded at least one issue).
C1_RoundTrip ==
    (scenario.kind = "session" /\ fstatus = "done" /\ Len(fetched) >= 1 /\ pc = "done")
        => yielded = fetched

\* C2: replaying [ISSUES, one-issue page, ASSIGNEES, "[]", COMMENTS, "[]",
\* ISSUE-REACTIONS, "[]", ISSUE-END, sentinel] completes normally and yields
\* exactly one issue whose assignees_data, comments_data and reactions_data are empty.
C2_OneIssueReplay ==
    (cache.some /\ cache.v = C2_Log /\ pc = "done")
        => /\ rstatus = "done"
           /\ Len(yielded) = 1
           /\ yielded[1].assignees_data = << >>
           /\ yielded[1].comments_data = << >>
           /\ yielded[1].reactions_data = << >>

\* C3: the replay of a log that violates the grammar fails (with the cache
\* error): it never passes over the offending token and ends normally, as it
\* does for a sound log.
C3_CorruptionIsFatal ==
    (scenario.kind = "replay" /\ cache.some /\ scenario.corruption # "none" /\ pc = "done")
        => rstatus # "done"

\* C4: with no cache configured the replay fails with the cache error before
\* it reads a token or yields a record.
C4_NoCacheFails ==
    (~cache.some /\ pc \in {"outer", "for", "inner", "done"})
        => rstatus = "CacheError" /\ pc = "done" /\ cursor = 0 /\ yielded = << >>

\* C4 witness: a replay was started on a backend without a cache and has failed.
C4_Witness ==
    ~cache.some /\ pc = "done" /\ rstatus = "CacheError" /\ cursor = 0 /\ yielded = << >>

\* C5: from the construction of the backend used for a replay until the
\* replay is exhausted, no HTTP request is made.
C5_ReplayOffline ==
    scenario.kind = "replay" => nreq = 0

\* C6: when a fetch session is over the cache log holds, in order, ISSUES and
\* the raw page for every page returned, the blocks of every issue and
\* ISSUE-END, closed by the sentinel (here for the sessions of one label that
\* yielded at least one issue).
C6_FetchWritesLog ==
    (scenario.kind = "session" /\ fstatus = "done" /\ labels.v = <<"bug">>
        /\ Len(fetched) >= 1)
        => cache.v = SessionLog(upstream, "object")

(***************************************************************************)
(* Claims about GitHubClient (checked under SpecClient).                   *)
(***************************************************************************)
\* The rate state a client holds after update_rate_limit on the k-th
\* successful response of log; before any response both fields are None.
PairOf(log, k) ==
    IF k = 0 THEN <<None, None>>
    ELSE <<HeaderField(log[k], RATE_LIMIT_HEADER, None),
           HeaderField(log[k], RATE_LIMIT_RESET_HEADER, None)>>

\* C11: in every state of a client, after any sequence of successful and
\* failed requests, the pair (rate_limit, rate_limit_reset_ts) is the pair of
\* one single response received so far (or of none): the two fields never come
\* from two different responses.
C11_PairFromOneResponse ==
    \E k \in 0..Len(client.resp_log) :
        <<rate_limit, rate_limit_reset_ts>> = PairOf(client.resp_log, k)

\* Two responses with different rate headers were received, then a request failed.
C11_Witness ==
    /\ Len(client.resp_log) >= 2
    /\ client.resp_log[1] # client.resp_log[2]
    /\ pager.status = "HTTPError"
    /\ <<rate_limit, rate_limit_reset_ts>> = PairOf(client.resp_log, Len(client.resp_log))
    /\ <<rate_limit, rate_limit_reset_ts>> # PairOf(client.resp_log, 1)

\* A chain of n pages with non-empty bodies, served with status 200 and healthy
\* rate headers, in which every page but the last has a next link.
PlainChain(c) ==
    \E hl \in BOOLEAN : c = ChainOf(Len(c), hl, "none", 1, "healthy", 1)

LastUpdateBefore(ev, i) ==
    LET ups == {j \in 1..(i - 1) : ev[j].e = "update"}
    IN  IF ups = {} THEN 0 ELSE CHOOSE j \in ups : \A k \in ups : k <= j

\* C13: the events of GitHubClient.fetch are ordered check, request, update:
\* a request follows a check that passed, an update follows a successful
\* response, no check follows a successful response before its update, and a
\* check reads the rate state the last update wrote.
C13_CheckRequestUpdate ==
    LET ev == client.events
    IN  \A i \in 1..Len(ev) :
          /\ ev[i].e = "request" => i > 1 /\ ev[i - 1].e = "check" /\ ev[i - 1].ok
          /\ ev[i].e = "update" => i > 1 /\ ev[i - 1].e = "request" /\ ev[i - 1].ok
          /\ (ev[i].e = "check" /\ i > 1) => ~(ev[i - 1].e = "request" /\ ev[i - 1].ok)
          /\ ev[i].e = "check" =>
                LET j == LastUpdateBefore(ev, i)
                IN  IF j = 0 THEN ev[i].rl = None /\ ev[i].reset = None
                    ELSE ev[i].rl = ev[j].rl /\ ev[i].reset = ev[j].reset

\* Three checks were made, the third against the state the second response left.
C13_Witness ==
    /\ Len(client.events) >= 7
    /\ client.events[7].e = "check"
    /\ client.events[7].rl.some
    /\ client.events[6].e = "update"
    /\ client.events[5].e = "request"

\* C14: fetch_items is lazy: the requests it has issued never exceed the
\* elements its consumer has asked for, and the request of page k+1 was issued
\* only if the response of page k carried a next link.
C14_Lazy ==
    pager.op = "fetch_items"
        => /\ pager.req <= pager.asked
           /\ \A k \in 1..(pager.req - 1) : srv_chain[k].next

\* Page 2 of three was yielded and page 3, although linked, is not requested yet.
C14_Witness ==
    /\ pager.op = "fetch_items"
    /\ pager.pc = "suspended"
    /\ Len(srv_chain) = 3
    /\ srv_chain[2].next
    /\ pager.req = 2
    /\ pager.asked = 2
    /\ Len(pager.out) = 2

\* C17: a 404 on the organizations lookup makes user_orgs return '[]' without
\* raising and every other error status on it propagates; an error status
\* (404 included) on a page of a listing propagates out of fetch_items.
C17_NotFoundHandling ==
    /\ (pager.op = "user_orgs" /\ pager.pc = "idle" /\ pager.req = 1)
          => IF pager.response.status = 404
             THEN pager.status = "done" /\ pager.value = EmptyArrayText
             ELSE IF RaiseForStatus(pager.response.status)
             THEN pager.status = "HTTPError"
             ELSE pager.status = "done" /\ pager.value = pager.response.text
    /\ (pager.op = "fetch_items" /\ pager.req >= 1 /\ RaiseForStatus(pager.response.status))
          => pager.status = "HTTPError" /\ pager.pc = "idle"

\* user_orgs got a 404 and returned '[]'.
C17_Witness ==
    /\ pager.op = "user_orgs"
    /\ pager.req = 1
    /\ pager.response.status = 404
    /\ pager.status = "done"
    /\ pager.value = EmptyArrayText
    /\ client.users_orgs = Some(EmptyArrayText)

(***************************************************************************)
(* Claims about the label sweep, errors and the replay (checked under Spec).*)
(***************************************************************************)
\* The page bodies of the full sweeps of the labels ls, one after the other.
RECURSIVE SweepAll(_)
SweepAll(ls) ==
    IF ls = << >> THEN << >>
    ELSE FetchItems(IssuesChain(Head(ls), upstream)).bodies \o SweepAll(Tail(ls))

\* The requests of the full sweeps of the labels ls.
RECURSIVE SweepRequests(_)
SweepRequests(ls) ==
    IF ls = << >> THEN 0
    ELSE FetchItems(IssuesChain(Head(ls), upstream)).nreq + SweepRequests(Tail(ls))

\* C15: with the labels L1..Ln, issues() makes one full sweep for each label,
\* in label order, and returns the pages of all the sweeps one after the other,
\* duplicates kept: as many pages as the sweeps have together.
C15_SweepPerLabel ==
    (scenario.kind = "session" /\ labels.some /\ fstatus \in {"", "done"}
        /\ pc \notin {"new", "ready", "sweep"})
        => /\ result = SweepAll(labels.v)
           /\ nreq - 1 = SweepRequests(labels.v)

\* Two labels whose sweeps return the same page: the page is returned twice.
C15_Witness ==
    /\ scenario.kind = "session"
    /\ labels = [some |-> TRUE, v |-> <<"bug", "ui">>]
    /\ pc = "iterate"
    /\ Len(result) = 2
    /\ result[1] = result[2]
    /\ nreq = 3

\* C16: issues() is lazy: a page of the issue list is requested only after
\* the issues of the pages before it were yielded to the caller of fetch.
C16_IssuesLazy ==
    (scenario.kind = "session" /\ pc = "sweep")
        => Len(fetched) = Len(IssuesOf(result))

\* C18: an HTTP error raised while fetching aborts the whole fetch: the error
\* ends GitHub.fetch, the failed request is not made again, no request follows
\* it, and no issue is yielded: neither after the error nor, unresolved, before it.
C18_ErrorAborts ==
    (scenario.kind = "session" /\ srv_fail >= 1 /\ nreq - 1 >= srv_fail)
        => /\ fstatus = "HTTPError"
           /\ nreq - 1 = srv_fail
           /\ fetched = << >>

\* The second request of a session failed after a first page was gathered.
C18_Witness ==
    /\ scenario.kind = "session"
    /\ srv_fail = 2
    /\ nreq = 3
    /\ Len(result) = 1
    /\ fstatus = "HTTPError"
    /\ fetched = << >>

\* The markers of the blocks of an issue, and the marker that closes it.
BlockMarkers == {USER, ASSIGNEE, ASSIGNEES, COMMENTS, ISSUE_REACTIONS, ISSUE_END}

\* C19: writer and reader are in lock-step: in the replay of a log as the
\* write-side helpers push it, after each block of the first issue of a page
\* the reader stands on the next marker the writer pushed, and the replay of
\* the log of one issue ends normally.
C19_LockStep ==
    (scenario.kind = "replay" /\ scenario.corruption = "none" /\ scenario.enc = "object"
        /\ cache.some)
        => /\ (pc = "inner" /\ idx = 0) => raw_item \in BlockMarkers
           /\ (pc = "done" /\ TotalLen(upstream) = 1) => rstatus = "done"

\* C20: in the replay of a well-formed log the token that follows the
\* ISSUE-END of an issue that is not the last of its page is the first marker
\* handled for the next issue: no token is read in between.
C20_NoTokenDropped ==
    [][(scenario.kind = "replay" /\ scenario.corruption = "none"
            /\ scenario.enc = "object" /\ pc = "for" /\ idx >= 1 /\ pc' = "inner")
        => (raw_item' = raw_item /\ cursor' = cursor)]_vars

\* C21: the replay of a well-formed log ends normally on the terminal
\* sentinel with every token read and none after the sentinel, and the number
\* of issues it yields is the sum of the lengths of the pages of the log, a
\* page that is the empty array included.
C21_ReplayTerminates ==
    (scenario.kind = "replay" /\ scenario.corruption = "none" /\ scenario.enc = "object"
        /\ cache.some /\ pc = "done")
        => /\ rstatus = "done"
           /\ cursor = Len(cache.v)
           /\ Len(yielded) = TotalLen(upstream)

\* C22: a reactions helper called with total_count = 0 appends the marker and
\* the single payload '[]' to the log, returns the empty list and makes no
\* request; called with total_count > 0 it appends the marker and then one
\* payload per page its listing yields, in page order.
C22_ReactionsTokens ==
    LET pushed == SubSeq(cache.v, Len(helper.before) + 1, Len(cache.v))
        marker == IF helper.name = "__get_issue_reactions" THEN ISSUE_REACTIONS
                  ELSE COMMENT_REACTIONS
    IN  (helper.name \in HelperNames /\ (helper.pc = "for" \/ helper.status # ""))
        => /\ SubSeq(cache.v, 1, Len(helper.before)) = helper.before
           /\ helper.total_count = 0
                => /\ pushed = <<marker, EmptyArrayText>>
                   /\ helper.status = "done"
                   /\ helper.reactions = << >>
                   /\ pager = NoCall
           /\ helper.total_count > 0
                => /\ pushed = <<marker>> \o SubSeq(pager.out, 1, helper.pushed)
                   /\ helper.pushed >= Len(pager.out) - 1
                   /\ helper.status # "" => helper.pushed = Len(pager.out)
                   /\ helper.status = "done"
                        => pager.out = [p \in 1..Len(pager.out) |-> srv_chain[p].text]

\* C22 witness: after a call of the issue helper with total_count = 0, which
\* pushed the marker and '[]' and made no request, the comment helper has
\* returned after pushing its marker and the two pages of its listing.
C22_Witness ==
    /\ helper.name = "__get_issue_comment_reactions"
    /\ helper.total_count > 0
    /\ helper.status = "done"
    /\ helper.before = <<ISSUE_REACTIONS, EmptyArrayText>>
    /\ Len(srv_chain) >= 2
    /\ cache.v = helper.before \o <<COMMENT_REACTIONS, srv_chain[1].text, srv_chain[2].text>>
    /\ srv_chain[1].text # srv_chain[2].text
    /\ client.nreq = 2

\* C23: when the rate-limit check of GitHubClient.fetch raises RateLimitError
\* (sleep flag off) no request is made, the rate state is left as it is and
\* the listing that made the call ends with that error; as long as this check
\* is the last operation on the handler, every step leaves the rate state and
\* the number of requests unchanged, and a later check raises the same error.
C23_ExceededFrame ==
    [][/\ (Len(client'.events) > Len(client.events) /\ last'.op = "check"
              /\ last'.kind = "RateLimitError")
          => /\ ~sleep_for_rate
             /\ client'.nreq = client.nreq
             /\ <<rate_limit', rate_limit_reset_ts'>> = <<rate_limit, rate_limit_reset_ts>>
             /\ pager'.pc = "idle" /\ pager'.status = "RateLimitError"
             /\ pager'.out = pager.out
       /\ (last.op = "check" /\ last.kind = "RateLimitError")
          => /\ client'.nreq = client.nreq
             /\ <<rate_limit', rate_limit_reset_ts'>> = <<rate_limit, rate_limit_reset_ts>>
             /\ last'.op = "check" /\ last'.kind = "RateLimitError"]_vars

\* C23 witness: a listing ended with RateLimitError at the check before its
\* second request, and the next call on the client failed at its first check,
\* at another time, with the one request of the first call still the only one.
C23_Witness ==
    /\ ~sleep_for_rate
    /\ client.calls = 2
    /\ client.nreq = 1
    /\ pager.pc = "idle" /\ pager.status = "RateLimitError" /\ pager.req = 0
    /\ last.op = "check" /\ last.kind = "RateLimitError" /\ last.now = MaxNow
    /\ Len(client.events) = 5
    /\ client.events[4].e = "check" /\ ~client.events[4].ok
    /\ client.events[5].e = "check" /\ ~client.events[5].ok
    /\ client.events[5].rl = client.events[4].rl
    /\ client.events[5].reset = client.events[4].reset

\* C24: the rate state is updated from the headers of every response, also of
\* one with an error status: after a request that ended in an HTTP error, made
\* after a successful one, rate_limit and rate_limit_reset_ts are the values of
\* the headers of the error response.
C24_UpdatedOnError ==
    (pager.pc = "idle" /\ pager.status = "HTTPError" /\ Len(client.resp_log) >= 1)
        => /\ rate_limit = HeaderField(pager.response.headers, RATE_LIMIT_HEADER, None)
           /\ rate_limit_reset_ts
                = HeaderField(pager.response.headers, RATE_LIMIT_RESET_HEADER, None)

\* C25: in every state reached through update_rate_limit in which remaining is
\* known, reset_at is known too, and no rate-limit check fails on an unknown
\* reset_at: a check returns (at once or after its sleep) or raises the
\* rate-limit error.
C25_ResetKnown ==
    /\ rate_limit.some => rate_limit_reset_ts.some
    /\ last.op = "check" => last.kind # "TypeError"

\* C26: with no label filter (labels None or an empty list) and an API that
\* answers every request, issues() does not fail: it makes the one sweep of
\* the issue list, a request per page, and returns the pages of the list.
C26_NoLabels ==
    (scenario.kind = "session" /\ (~labels.some \/ labels.v = << >>) /\ srv_fail = 0
        /\ pc \notin {"new", "ready", "sweep"})
        => /\ fstatus \in {"", "done"}
           /\ result = [p \in 1..Len(upstream) |-> Json(RawPage(upstream[p]))]
           /\ nreq - 1 = Len(upstream)

\* C27: the max_retries and default_sleep_time the GitHub backend is built
\* with reach the transport unchanged: the retry budget (total) of the HTTP
\* session is the configured max_retries and its backoff factor the
\* configured default_sleep_time.
C27_RetryConfigReachesTransport ==
    (scenario.kind = "build" /\ transport.total.some)
        => /\ transport.total = Some(config.max_retries)
           /\ transport.backoff_factor = Some(config.default_sleep_time)

====
